---- MODULE Spec2Model ----
(***************************************************************************)
(* generate-assets: the directory walker (visit_dirs / parse_assets) and   *)
(* the per-asset metadata enrichment (get_extra_metadata and its two       *)
(* resolvers), with the license parser and the version resolver.           *)
(*                                                                         *)
(* Strings that the code inspects character by character (license          *)
(* expressions, versions, dependency keys, file names) are sequences of    *)
(* symbols; Option<T> is the empty sequence (None) or a one-element        *)
(* sequence (Some).                                                        *)
(***************************************************************************)
EXTENDS Integers, Sequences, FiniteSets, TLC

VARIABLES
    github_client,  \* parse_assets argument: TRUE iff Some(&GithubClient)
    crates_io_db,   \* parse_assets argument: TRUE iff Some(&CratesIoDb)
    stack,          \* the `section` of every active visit_dirs call, root first
    entry,          \* the directory entry the loop of visit_dirs is looking at
    file,           \* the descriptor file read last (what is on disk)
    asset,          \* the `asset` local of visit_dirs / the receiver of set_license
    world,          \* what the collaborators answer for the current asset
    calls,          \* collaborator calls made for the current asset, in order
    pc,             \* position in visit_dirs / in the function under call
    status,         \* "running", "ok" (Ok returned), "err" (Err returned), "panic"
    result,         \* what parse_assets returned: None or Some(Section)
    arg,            \* argument of set_license / get_bevy_version
    ret             \* return value of get_bevy_version

vars == <<github_client, crates_io_db, stack, entry, file, asset, world, calls,
          pc, status, result, arg, ret>>

\* ------------------------------------------------------------------ bounds
MaxNodes == 2
MaxLen == 5
MaxRecords == 2

\* ------------------------------------------------------------------ Option
None == <<>>
Some(x) == <<x>>
IsSome(o) == o # <<>>

Min(S) == CHOOSE x \in S : \A y \in S : x <= y
Max(S) == CHOOSE x \in S : \A y \in S : x >= y

SeqsUpTo(S, n) == UNION {[1..k -> S] : k \in 0..n}

\* ------------------------------------------------------------------ strings
OR == <<"O", "R">>
MAIN == <<"m", "a", "i", "n">>
GIT == <<"g", "i", "t">>
BEVY == <<"b", "e", "v", "y">>

IsWhitespace(c) == c \in {" ", "\t"}

\* str::starts_with
StartsWith(s, p) == Len(s) >= Len(p) /\ SubSeq(s, 1, Len(p)) = p

\* str::trim: drops leading and trailing whitespace
Trim(s) ==
    LET keep == {i \in 1..Len(s) : ~IsWhitespace(s[i])}
    IN  IF keep = {} THEN <<>> ELSE SubSeq(s, Min(keep), Max(keep))

\* str::split("OR"): the pieces between the matches of "OR", found left to right
RECURSIVE Split(_)
Split(s) ==
    LET hits == {i \in 1..(Len(s) - 1) : SubSeq(s, i, i + 1) = OR}
    IN  IF hits = {} THEN <<s>>
        ELSE <<SubSeq(s, 1, Min(hits) - 1)>> \o Split(SubSeq(s, Min(hits) + 2, Len(s)))

\* str::replace('^', "")
RemoveCaret(s) == SelectSeq(s, LAMBDA c : c # "^")

\* ------------------------------------------------------------------ Asset
\* struct Asset; the receiver of set_license
NewAsset(link, licenses, bevy_versions) ==
    [name |-> <<"n">>, link |-> link, description |-> <<"d">>, order |-> None,
     image |-> None, licenses |-> licenses, bevy_versions |-> bevy_versions,
     original_path |-> None]

SetLicenseNoTrim(a, license) ==
    [a EXCEPT !.licenses = Some(Split(license))]
\* Asset::set_license
SetLicense(a, license) ==
    LET parts == Split(license)
    IN  [a EXCEPT !.licenses = Some([i \in 1..Len(parts) |-> Trim(parts[i])])]

\* ------------------------------------------------------------------ get_bevy_version
Simple(v) == [tag |-> "Simple", version |-> Some(v), git |-> None, branch |-> None]
Detailed(version, git, branch) ==
    [tag |-> "Detailed", version |-> version, git |-> git, branch |-> branch]

GetBevyVersionGitFirst(dep) ==
    IF dep.tag = "Simple" THEN dep.version
    ELSE IF IsSome(dep.git)
         THEN (IF dep.branch = Some(MAIN) THEN Some(MAIN) ELSE Some(GIT))
         ELSE dep.version
\* get_bevy_version
GetBevyVersion(dep) ==
    IF dep.tag = "Simple" THEN dep.version
    ELSE IF IsSome(dep.version) THEN dep.version
    ELSE IF IsSome(dep.git)
         THEN (IF dep.branch = Some(MAIN) THEN Some(MAIN) ELSE Some(GIT))
         ELSE None

\* ------------------------------------------------------------------ collaborators
\* GithubClient::get_content: Err, or the decoded text of Cargo.toml
ClientGetContent(w) == w.content
\* GithubClient::get_license: Err, or the spdx_id of the repository's license
ClientGetLicense(w) == w.license
\* cratesio_dbdump_lookup::get_rev_dependency(db, crate_name, "bevy")
GetRevDependency(w) == w.rev

\* toml::from_str::<cargo_toml::Manifest>: Err when the text is no manifest
ParseManifest(content) ==
    [ok |-> content.valid, package |-> content.package,
     dependencies |-> content.dependencies]

\* dependencies.keys().find(|k| k.starts_with("bevy")).and_then(get .. get_bevy_version)
FindBevyVersion(dependencies) ==
    LET hits == {i \in 1..Len(dependencies) : StartsWith(dependencies[i].key, BEVY)}
    IN  IF hits = {} THEN None ELSE GetBevyVersion(dependencies[Min(hits)].dep)

\* the license chosen by get_metadata_from_github and whether get_license was called
ManifestLicense(manifest, w) ==
    IF IsSome(manifest.package)
    THEN [license |-> manifest.package[1].license, asked |-> FALSE]
    ELSE [license |-> IF ClientGetLicense(w).ok
                      THEN Some(ClientGetLicense(w).value) ELSE None,
          asked |-> TRUE]

\* get_metadata_from_github: [ok, asset, calls]; `asset` is the &mut Asset afterwards
GetMetadataFromGithub(a, w) ==
    LET content == ClientGetContent(w)
        manifest == ParseManifest(content)
        lic == ManifestLicense(manifest, w)
        a1 == IF IsSome(lic.license) THEN SetLicense(a, lic.license[1]) ELSE a
        version == FindBevyVersion(manifest.dependencies)
        a2 == IF IsSome(version)
              THEN [a1 EXCEPT !.bevy_versions = Some(<<version[1]>>)] ELSE a1
    IN  IF ~content.ok THEN [ok |-> FALSE, asset |-> a, calls |-> <<"get_content">>]
        ELSE IF ~manifest.ok
        THEN [ok |-> FALSE, asset |-> a, calls |-> <<"get_content">>]
        ELSE [ok |-> TRUE, asset |-> a2,
              calls |-> <<"get_content">>
                        \o (IF lic.asked THEN <<"get_license">> ELSE <<>>)]

\* .into_iter().flatten(): the Ok records, in order
Flatten(records) == SelectSeq(records, LAMBDA r : r.ok)

\* the body of the for loop of get_metadata_from_crates_io_db, for one record
ApplyRecord(a, r) ==
    LET a1 == SetLicense(a, r.license)
    IN  IF r.deps.ok /\ r.deps.list # <<>>
        THEN [a1 EXCEPT !.bevy_versions = Some(<<RemoveCaret(r.deps.list[1])>>)]
        ELSE a1

RECURSIVE ApplyRecords(_, _)
ApplyRecords(a, records) ==
    IF records = <<>> THEN a
    ELSE ApplyRecords(ApplyRecord(a, Head(records)), Tail(records))

GetMetadataFromCratesIoDbFirstWins(a, w) ==
    LET rev == GetRevDependency(w)
        recs == Flatten(rev.records)
    IN  IF ~rev.ok THEN [ok |-> FALSE, asset |-> a, calls |-> <<"get_rev_dependency">>]
        ELSE [ok |-> TRUE,
              asset |-> IF recs = <<>> THEN a ELSE ApplyRecord(a, recs[1]),
              calls |-> <<"get_rev_dependency">>]
\* get_metadata_from_crates_io_db
GetMetadataFromCratesIoDb(a, w) ==
    LET rev == GetRevDependency(w)
    IN  IF ~rev.ok THEN [ok |-> FALSE, asset |-> a, calls |-> <<"get_rev_dependency">>]
        ELSE [ok |-> TRUE, asset |-> ApplyRecords(a, Flatten(rev.records)),
              calls |-> <<"get_rev_dependency">>]

\* ------------------------------------------------------------------ get_extra_metadata
\* url::Url::parse with Url::host_str and Url::path_segments, on the links used here
ParseUrl(link) ==
    CASE link = "https://github.com/o/r" ->
            [ok |-> TRUE, host |-> Some("github.com"), segments |-> Some(<<"o", "r">>)]
      [] link = "https://github.com/o" ->
            [ok |-> TRUE, host |-> Some("github.com"), segments |-> Some(<<"o">>)]
      [] link = "https://github.com" ->
            [ok |-> TRUE, host |-> Some("github.com"), segments |-> Some(<<"">>)]
      [] link = "https://www.github.com/o/r" ->
            [ok |-> TRUE, host |-> Some("www.github.com"), segments |-> Some(<<"o", "r">>)]
      [] link = "https://crates.io/crates/c" ->
            [ok |-> TRUE, host |-> Some("crates.io"), segments |-> Some(<<"crates", "c">>)]
      [] link = "https://crates.io/crates" ->
            [ok |-> TRUE, host |-> Some("crates.io"), segments |-> Some(<<"crates">>)]
      [] link = "https://example.com/x" ->
            [ok |-> TRUE, host |-> Some("example.com"), segments |-> Some(<<"x">>)]
      [] link = "mailto:a@example.com" ->
            [ok |-> TRUE, host |-> None, segments |-> None]
      [] OTHER ->
            [ok |-> FALSE, host |-> None, segments |-> None]

Links ==
    {"https://github.com/o/r", "https://github.com/o", "https://github.com",
     "https://www.github.com/o/r", "https://crates.io/crates/c",
     "https://crates.io/crates", "https://example.com/x", "mailto:a@example.com",
     "not a url"}

Outcome(st, a, cs) == [status |-> st, asset |-> a, calls |-> cs]

GetExtraMetadataPropagates(a, w, db, client) ==
    LET url == ParseUrl(a.link)
        gh == GetMetadataFromGithub(a, w)
        cr == GetMetadataFromCratesIoDb(a, w)
    IN  IF ~url.ok THEN Outcome("err", a, <<>>)
        ELSE IF url.segments = None THEN Outcome("panic", a, <<>>)
        ELSE IF url.host = Some("github.com") /\ client
        THEN (IF Len(url.segments[1]) < 2 THEN Outcome("panic", a, <<>>)
              ELSE Outcome(IF gh.ok THEN "ok" ELSE "err", gh.asset, gh.calls))
        ELSE IF url.host = Some("crates.io") /\ db
        THEN (IF Len(url.segments[1]) < 2 THEN Outcome("panic", a, <<>>)
              ELSE Outcome(IF cr.ok THEN "ok" ELSE "err", cr.asset, cr.calls))
        ELSE Outcome("ok", a, <<>>)
GetExtraMetadataSuffixHost(a, w, db, client) ==
    LET url == ParseUrl(a.link)
        gh == GetMetadataFromGithub(a, w)
        cr == GetMetadataFromCratesIoDb(a, w)
    IN  IF ~url.ok THEN Outcome("err", a, <<>>)
        ELSE IF url.segments = None THEN Outcome("panic", a, <<>>)
        ELSE IF url.host \in {Some("github.com"), Some("www.github.com")} /\ client
        THEN (IF Len(url.segments[1]) < 2 THEN Outcome("panic", a, <<>>)
              ELSE Outcome("ok", gh.asset, gh.calls))
        ELSE IF url.host = Some("crates.io") /\ db
        THEN (IF Len(url.segments[1]) < 2 THEN Outcome("panic", a, <<>>)
              ELSE Outcome("ok", cr.asset, cr.calls))
        ELSE Outcome("ok", a, <<>>)
\* get_extra_metadata: "ok" is Ok(()), "err" is the Err of Url::parse, "panic" is
\* the unwrap of path_segments or an index past the end of `segments`
GetExtraMetadata(a, w, db, client) ==
    LET url == ParseUrl(a.link)
        gh == GetMetadataFromGithub(a, w)
        cr == GetMetadataFromCratesIoDb(a, w)
    IN  IF ~url.ok THEN Outcome("err", a, <<>>)
        ELSE IF url.segments = None THEN Outcome("panic", a, <<>>)
        ELSE IF url.host = Some("github.com") /\ client
        THEN (IF Len(url.segments[1]) < 2 THEN Outcome("panic", a, <<>>)
              ELSE Outcome("ok", gh.asset, gh.calls))
        ELSE IF url.host = Some("crates.io") /\ db
        THEN (IF Len(url.segments[1]) < 2 THEN Outcome("panic", a, <<>>)
              ELSE Outcome("ok", cr.asset, cr.calls))
        ELSE Outcome("ok", a, <<>>)

\* ------------------------------------------------------------------ paths
\* File names are split at their dots: ".git" is <<".", "git">>.
DOT_GIT == <<".", "git">>
DOT_GITHUB == <<".", "github">>
CATEGORY_TOML == <<"_category", ".", "toml">>

Names == {DOT_GIT, DOT_GITHUB, CATEGORY_TOML, <<"a">>, <<"x", ".", "toml">>,
          <<"r", ".", "md">>, <<".", "hidden">>}

\* Path::extension: None without a dot after the first symbol, else what follows
\* the last dot
Extension(name) ==
    LET dots == {i \in 2..Len(name) : name[i] = "."}
    IN  IF dots = {} THEN None ELSE Some(SubSeq(name, Max(dots) + 1, Len(name)))

\* ------------------------------------------------------------------ _category.toml
\* a toml::Value of the table, or that the key is missing
NoField == [t |-> "missing", i |-> 0, b |-> FALSE]
TomlInteger(n) == [t |-> "Integer", i |-> n, b |-> FALSE]
TomlBoolean(v) == [t |-> "Boolean", i |-> 0, b |-> v]
TomlString == [t |-> "String", i |-> 0, b |-> FALSE]

\* exists: path.join("_category.toml").exists(); valid: it is readable and is TOML
NoCategory == [exists |-> FALSE, valid |-> FALSE, order |-> NoField,
               sort_order_reversed |-> NoField]
\* the order keys are non-negative here: `v as usize` leaves them as they are
Categories ==
    {NoCategory, [NoCategory EXCEPT !.exists = TRUE]}
    \cup [exists : {TRUE}, valid : {TRUE},
          order : {NoField, TomlInteger(3), TomlString},
          sort_order_reversed : {NoField, TomlBoolean(TRUE), TomlBoolean(FALSE)}]

\* from_file.get("order").and_then(|v| v.as_integer()).map(|v| v as usize)
CategoryOrder(c) == IF c.order.t = "Integer" THEN Some(c.order.i) ELSE None
\* from_file.get("sort_order_reversed").and_then(|v| v.as_bool()).unwrap_or(false)
CategoryReversed(c) ==
    IF c.sort_order_reversed.t = "Boolean" THEN c.sort_order_reversed.b ELSE FALSE

\* ------------------------------------------------------------------ Section, AssetNode
Section(name, order, reversed) ==
    [name |-> name, content |-> <<>>, template |-> None, header |-> None,
     order |-> order, sort_order_reversed |-> reversed]

\* asset_root_section of parse_assets
RootSection ==
    [name |-> <<"Assets">>, content |-> <<>>, template |-> Some(<<"assets.html">>),
     header |-> Some(<<"Assets">>), order |-> None, sort_order_reversed |-> FALSE]

SectionNode(sec) == [tag |-> "Section", v |-> sec]
AssetNode(a) == [tag |-> "Asset", v |-> a]

\* new_section of visit_dirs, for the directory entry e
NewSection(e) ==
    IF e.category.exists
    THEN Section(e.name, CategoryOrder(e.category), CategoryReversed(e.category))
    ELSE Section(e.name, None, FALSE)

RECURSIVE CountNodes(_)
CountNodes(content) ==
    IF content = <<>> THEN 0
    ELSE 1 + (IF Head(content).tag = "Section"
              THEN CountNodes(Head(content).v.content) ELSE 0)
           + CountNodes(Tail(content))

RECURSIVE StackNodes(_)
StackNodes(st) ==
    IF st = <<>> THEN 0 ELSE 1 + CountNodes(Head(st).content) + StackNodes(Tail(st))

\* ------------------------------------------------------------------ descriptor files
KnownFields == {"name", "link", "description", "order", "image", "licenses",
                "bevy_versions"}
RequiredFields == {"name", "link", "description"}

\* readable: fs::read_to_string succeeds; valid: the text is TOML
Descriptors ==
    [readable : {TRUE}, valid : {TRUE}, link : Links,
     fields : {RequiredFields, RequiredFields \cup {"licenses", "bevy_versions"}}]
    \cup [readable : {TRUE}, valid : {TRUE}, link : {"https://example.com/x"},
          fields : {{"name", "link"}, {"name", "description"}, {"link", "description"},
                    RequiredFields \cup {"bogus"}}]
    \cup [readable : {TRUE, FALSE}, valid : {FALSE}, link : {"https://example.com/x"},
          fields : {RequiredFields}]

NoFile == [readable |-> FALSE, valid |-> FALSE, link |-> "", fields |-> {}]

LICENSE_Z == <<"Z">>
VERSION_09 == <<"0", ".", "9">>

DescriptorLoadsLenient(d) == d.readable /\ d.valid
\* whether toml::from_str::<Asset>(&fs::read_to_string(&path).unwrap()).unwrap()
\* yields an Asset (deny_unknown_fields, three required fields)
DescriptorLoads(d) ==
    /\ d.readable
    /\ d.valid
    /\ d.fields \subseteq KnownFields
    /\ RequiredFields \subseteq d.fields

\* the Asset deserialized from d
FromDescriptor(d) ==
    NewAsset(d.link,
             IF "licenses" \in d.fields THEN Some(<<LICENSE_Z>>) ELSE None,
             IF "bevy_versions" \in d.fields THEN Some(<<VERSION_09>>) ELSE None)

\* ------------------------------------------------------------------ collaborator answers
LICENSE_M == <<"M">>
LICENSE_B == <<"B">>
LICENSE_M_OR_A == <<"M", " ", "O", "R", " ", "A">>
VERSION_010 == <<"0", ".", "1", "0">>
VERSION_CARET_011 == <<"^", "0", ".", "1", "1">>

ContentErr == [ok |-> FALSE, valid |-> FALSE, package |-> None, dependencies |-> <<>>]
ContentNoManifest == [ContentErr EXCEPT !.ok = TRUE]
Manifest(package, dependencies) ==
    [ok |-> TRUE, valid |-> TRUE, package |-> package, dependencies |-> dependencies]
Package(license) == Some([license |-> license])

Dep(key, dep) == [key |-> key, dep |-> dep]
KEY_BEVY == BEVY
KEY_BEVY_ECS == BEVY \o <<"_", "e", "c", "s">>
KEY_ANYHOW == <<"a", "n", "y", "h", "o", "w">>
URL == <<"u", "r", "l">>

LicenseErr == [ok |-> FALSE, value |-> <<>>]
LicenseOk(l) == [ok |-> TRUE, value |-> l]

RevErr == [ok |-> FALSE, records |-> <<>>]
RevOk(records) == [ok |-> TRUE, records |-> records]
DepsErr == [ok |-> FALSE, list |-> <<>>]
DepsOk(list) == [ok |-> TRUE, list |-> list]
RecordErr == [ok |-> FALSE, license |-> <<>>, deps |-> DepsErr]
Record(license, deps) == [ok |-> TRUE, license |-> license, deps |-> deps]

NoWorld == [content |-> ContentErr, license |-> LicenseErr, rev |-> RevErr]

\* the answers tried during the walk
WalkContents ==
    {ContentErr, ContentNoManifest,
     Manifest(None, <<>>),
     Manifest(Package(None), <<Dep(KEY_BEVY, Simple(VERSION_010))>>),
     Manifest(Package(Some(LICENSE_M_OR_A)),
              <<Dep(KEY_ANYHOW, Simple(VERSION_09)),
                Dep(KEY_BEVY_ECS, Detailed(None, Some(URL), Some(MAIN)))>>)}
WalkRevs ==
    {RevErr, RevOk(<<>>),
     RevOk(<<Record(LICENSE_M, DepsOk(<<VERSION_CARET_011>>))>>),
     RevOk(<<RecordErr, Record(LICENSE_M_OR_A, DepsErr)>>)}

\* the answers tried when only the enrichment of one asset is explored
DependencyLists ==
    {<<>>,
     <<Dep(KEY_ANYHOW, Simple(VERSION_09))>>,
     <<Dep(KEY_BEVY, Simple(VERSION_010))>>,
     <<Dep(KEY_ANYHOW, Simple(VERSION_09)),
       Dep(KEY_BEVY, Detailed(None, Some(URL), Some(MAIN))),
       Dep(KEY_BEVY_ECS, Simple(VERSION_010))>>,
     <<Dep(KEY_BEVY, Detailed(None, None, None)),
       Dep(KEY_BEVY_ECS, Simple(VERSION_010))>>}
EnrichContents ==
    {ContentErr, ContentNoManifest}
    \cup {Manifest(p, d) : p \in {None, Package(None), Package(Some(LICENSE_M)),
                                  Package(Some(LICENSE_M_OR_A))},
                           d \in DependencyLists}
Records ==
    {RecordErr}
    \cup {Record(l, d) : l \in {LICENSE_M, LICENSE_M_OR_A},
                         d \in {DepsErr, DepsOk(<<>>), DepsOk(<<VERSION_CARET_011>>),
                                DepsOk(<<VERSION_010, VERSION_09>>)}}
EnrichRevs == {RevErr} \cup {RevOk(rs) : rs \in SeqsUpTo(Records, MaxRecords)}

\* the answers that matter for a link: those of the host it names
WorldsFor(link, contents, revs) ==
    IF link \in {"https://github.com/o/r", "https://www.github.com/o/r"}
    THEN [content : contents, license : {LicenseErr, LicenseOk(LICENSE_B)},
          rev : {RevErr}]
    ELSE IF link = "https://crates.io/crates/c"
    THEN [content : {ContentErr}, license : {LicenseErr}, rev : revs]
    ELSE {NoWorld}

\* ------------------------------------------------------------------ visit_dirs
NoAsset == NewAsset("", None, None)
NoEntry == [name |-> <<>>, is_dir |-> FALSE, category |-> NoCategory]

Entries ==
    [name : Names, is_dir : {FALSE}, category : {NoCategory}]
    \cup [name : {DOT_GIT, DOT_GITHUB, <<"x", ".", "toml">>}, is_dir : {TRUE},
          category : {NoCategory}]
    \cup [name : {<<"a">>}, is_dir : {TRUE}, category : Categories]

Top == stack[Len(stack)]

\* the names the children of a section came from
ChildKey(node) == IF node.tag = "Section" THEN node.v.name ELSE node.v.original_path[1]
ChildKeys(sec) == {ChildKey(sec.content[i]) : i \in 1..Len(sec.content)}

Push(st, node) ==
    [st EXCEPT ![Len(st)].content = Append(st[Len(st)].content, node)]

\* line 75: the entries that are passed over before anything else is looked at
IsVcs(name) == name = DOT_GIT \/ name = DOT_GITHUB

FileDispositionLoadsCategory(name) ==
    IF Extension(name) = None THEN "panic"
    ELSE IF Extension(name)[1] # <<"toml">> THEN "skip"
    ELSE "load"
\* lines 109-113: what happens to a file entry: "skip" (continue), "panic" (the
\* expect on path.extension()), or "load"
FileDisposition(name) ==
    IF name = CATEGORY_TOML THEN "skip"
    ELSE IF Extension(name) = None THEN "panic"
    ELSE IF Extension(name)[1] # <<"toml">> THEN "skip"
    ELSE "load"

Running == status = "running"

\* line 71: parse_assets was given a path that is no directory
NotADirectory ==
    /\ Running /\ pc = "open" /\ Len(stack) = 1
    /\ pc' = "finish"
    /\ UNCHANGED <<github_client, crates_io_db, stack, entry, file, asset, world,
                   calls, status, result, arg, ret>>

\* line 72: fs::read_dir(dir)? succeeds
OpenDir ==
    /\ Running /\ pc = "open"
    /\ pc' = "iter"
    /\ UNCHANGED <<github_client, crates_io_db, stack, entry, file, asset, world,
                   calls, status, result, arg, ret>>

\* line 72: fs::read_dir(dir)? fails; the ? of every caller hands the Err on
ReadDirFails ==
    /\ Running /\ pc = "open"
    /\ status' = "err"
    /\ UNCHANGED <<github_client, crates_io_db, stack, entry, file, asset, world,
                   calls, pc, result, arg, ret>>

\* lines 72-74: the iterator yields the next entry of the directory
NextEntry ==
    /\ Running /\ pc = "iter"
    /\ StackNodes(stack) - 1 < MaxNodes
    /\ \E e \in Entries :
          /\ e.name \notin ChildKeys(Top)
          /\ entry' = e
    /\ pc' = "entry"
    /\ UNCHANGED <<github_client, crates_io_db, stack, file, asset, world, calls,
                   status, result, arg, ret>>

\* line 73: let entry = entry? fails
EntryFails ==
    /\ Running /\ pc = "iter"
    /\ status' = "err"
    /\ UNCHANGED <<github_client, crates_io_db, stack, entry, file, asset, world,
                   calls, pc, result, arg, ret>>

\* line 72: the iterator is exhausted
EndOfDir ==
    /\ Running /\ pc = "iter"
    /\ pc' = "finish"
    /\ UNCHANGED <<github_client, crates_io_db, stack, entry, file, asset, world,
                   calls, status, result, arg, ret>>

\* lines 75-77
SkipVcs ==
    /\ Running /\ pc = "entry" /\ IsVcs(entry.name)
    /\ pc' = "iter"
    /\ UNCHANGED <<github_client, crates_io_db, stack, entry, file, asset, world,
                   calls, status, result, arg, ret>>

\* lines 80-84: _category.toml exists and cannot be read or is no TOML
CategoryFails ==
    /\ Running /\ pc = "entry" /\ ~IsVcs(entry.name) /\ entry.is_dir
    /\ entry.category.exists /\ ~entry.category.valid
    /\ status' = "panic"
    /\ UNCHANGED <<github_client, crates_io_db, stack, entry, file, asset, world,
                   calls, pc, result, arg, ret>>

\* lines 78-106: the new section is made and visit_dirs is called on the directory
EnterDir ==
    /\ Running /\ pc = "entry" /\ ~IsVcs(entry.name) /\ entry.is_dir
    /\ entry.category.exists => entry.category.valid
    /\ stack' = Append(stack, NewSection(entry))
    /\ pc' = "open"
    /\ UNCHANGED <<github_client, crates_io_db, entry, file, asset, world, calls,
                   status, result, arg, ret>>

\* lines 109-113: continue
SkipFile ==
    /\ Running /\ pc = "entry" /\ ~IsVcs(entry.name) /\ ~entry.is_dir
    /\ FileDisposition(entry.name) = "skip"
    /\ pc' = "iter"
    /\ UNCHANGED <<github_client, crates_io_db, stack, entry, file, asset, world,
                   calls, status, result, arg, ret>>

\* line 110: expect("file must have an extension")
ExtensionMissing ==
    /\ Running /\ pc = "entry" /\ ~IsVcs(entry.name) /\ ~entry.is_dir
    /\ FileDisposition(entry.name) = "panic"
    /\ status' = "panic"
    /\ UNCHANGED <<github_client, crates_io_db, stack, entry, file, asset, world,
                   calls, pc, result, arg, ret>>

\* lines 115-116: the descriptor is read and deserialized
LoadAsset ==
    /\ Running /\ pc = "entry" /\ ~IsVcs(entry.name) /\ ~entry.is_dir
    /\ FileDisposition(entry.name) = "load"
    /\ \E d \in Descriptors :
          /\ DescriptorLoads(d)
          /\ file' = d
          /\ asset' = [FromDescriptor(d) EXCEPT !.original_path = Some(entry.name)]
          /\ world' \in WorldsFor(d.link, WalkContents, WalkRevs)
    /\ calls' = <<>>
    /\ pc' = "enrich"
    /\ UNCHANGED <<github_client, crates_io_db, stack, entry, status, result, arg, ret>>

\* line 115: one of the two unwraps panics
DescriptorFails ==
    /\ Running /\ pc = "entry" /\ ~IsVcs(entry.name) /\ ~entry.is_dir
    /\ FileDisposition(entry.name) = "load"
    /\ \E d \in Descriptors :
          /\ ~DescriptorLoads(d)
          /\ file' = d
    /\ status' = "panic"
    /\ UNCHANGED <<github_client, crates_io_db, stack, entry, asset, world, calls,
                   pc, result, arg, ret>>

\* line 118: get_extra_metadata(&mut asset, crates_io_db, github_client)?
Enrich ==
    /\ Running /\ pc = "enrich"
    /\ LET o == GetExtraMetadata(asset, world, crates_io_db, github_client)
       IN  /\ asset' = o.asset
           /\ calls' = o.calls
           /\ IF o.status = "ok"
              THEN pc' = "attach" /\ status' = status
              ELSE pc' = pc /\ status' = o.status
    /\ UNCHANGED <<github_client, crates_io_db, stack, entry, file, world, result,
                   arg, ret>>

\* line 120: section.content.push(AssetNode::Asset(asset))
Attach ==
    /\ Running /\ pc = "attach"
    /\ stack' = Push(stack, AssetNode(asset))
    /\ asset' = NoAsset
    /\ world' = NoWorld
    /\ pc' = "iter"
    /\ UNCHANGED <<github_client, crates_io_db, entry, file, calls, status, result,
                   arg, ret>>

FinishDirPrunesEmpty ==
    /\ Running /\ pc = "finish" /\ Len(stack) > 1
    /\ stack' = IF Top.content = <<>> THEN SubSeq(stack, 1, Len(stack) - 1)
                ELSE Push(SubSeq(stack, 1, Len(stack) - 1), SectionNode(Top))
    /\ pc' = "iter"
    /\ UNCHANGED <<github_client, crates_io_db, entry, file, asset, world, calls,
                   status, result, arg, ret>>
\* lines 124, 106-107: the inner visit_dirs returns Ok and the section is pushed
FinishDir ==
    /\ Running /\ pc = "finish" /\ Len(stack) > 1
    /\ stack' = Push(SubSeq(stack, 1, Len(stack) - 1), SectionNode(Top))
    /\ pc' = "iter"
    /\ UNCHANGED <<github_client, crates_io_db, entry, file, asset, world, calls,
                   status, result, arg, ret>>

\* lines 124, 145-146: the outermost visit_dirs returns Ok and so does parse_assets
Return ==
    /\ Running /\ pc = "finish" /\ Len(stack) = 1
    /\ result' = Some(stack[1])
    /\ status' = "ok"
    /\ pc' = "done"
    /\ UNCHANGED <<github_client, crates_io_db, stack, entry, file, asset, world,
                   calls, arg, ret>>

\* parse_assets has made asset_root_section and is about to call visit_dirs
Init ==
    /\ github_client \in BOOLEAN
    /\ crates_io_db \in BOOLEAN
    /\ stack = <<RootSection>>
    /\ entry = NoEntry
    /\ file = NoFile
    /\ asset = NoAsset
    /\ world = NoWorld
    /\ calls = <<>>
    /\ pc = "open"
    /\ status = "running"
    /\ result = None
    /\ arg = <<>>
    /\ ret = None

Next ==
    \/ NotADirectory \/ OpenDir \/ ReadDirFails
    \/ NextEntry \/ EntryFails \/ EndOfDir
    \/ SkipVcs \/ CategoryFails \/ EnterDir
    \/ SkipFile \/ ExtensionMissing \/ LoadAsset \/ DescriptorFails
    \/ Enrich \/ Attach \/ FinishDir \/ Return

Spec == Init /\ [][Next]_vars

\* ================================================================== claims, walk
Range(f) == {f[i] : i \in 1..Len(f)}

\* the asset as line 116 leaves it, before get_extra_metadata
Loaded == [FromDescriptor(file) EXCEPT !.original_path = Some(entry.name)]

\* the link leads get_extra_metadata to get_metadata_from_github
ReachesGithub ==
    /\ ParseUrl(asset.link).host = Some("github.com") /\ github_client
    /\ ParseUrl(asset.link).segments # None
    /\ Len(ParseUrl(asset.link).segments[1]) >= 2
\* the link leads get_extra_metadata to get_metadata_from_crates_io_db
ReachesCrates ==
    /\ ParseUrl(asset.link).host = Some("crates.io") /\ crates_io_db
    /\ ParseUrl(asset.link).segments # None
    /\ Len(ParseUrl(asset.link).segments[1]) >= 2
\* the resolver that is run for the current asset returns Err
ResolverErrs ==
    \/ ReachesGithub /\ (~world.content.ok \/ ~world.content.valid)
    \/ ReachesCrates /\ ~world.rev.ok

\* C1: when the resolver run for an asset returns an error, get_extra_metadata
\* returns Ok with licenses and bevy_versions as they were before, and the next
\* step of the walk appends the asset to its section and goes on to the next entry.
C1_ResolverErrorIsNoEnrichment ==
    /\ [][(pc = "enrich" /\ ResolverErrs) =>
            /\ pc' = "attach" /\ status' = "running"
            /\ asset'.licenses = asset.licenses
            /\ asset'.bevy_versions = asset.bevy_versions]_vars
    /\ [][(pc = "attach" /\ ResolverErrs) =>
            /\ stack' = Push(stack, AssetNode(Loaded))
            /\ pc' = "iter" /\ status' = "running"]_vars

\* C1 witness: a resolver was called and failed, and the asset, whose descriptor
\* gave licenses, is about to be appended with them untouched
C1_Witness ==
    /\ pc = "attach" /\ ResolverErrs /\ calls # <<>>
    /\ asset.licenses = Some(<<LICENSE_Z>>)

\* C4 (as claimed): a file entry that is _category.toml or whose extension is not
\* toml, a file without any extension included, is skipped: nothing is loaded or
\* appended, no collaborator is called, and the walk goes on.
C4_NonDescriptorFileSkipped ==
    [][(/\ pc = "entry" /\ Running /\ ~IsVcs(entry.name) /\ ~entry.is_dir
        /\ (entry.name = CATEGORY_TOML \/ Extension(entry.name) # Some(<<"toml">>)))
       => (/\ pc' = "iter" /\ status' = "running"
           /\ stack' = stack /\ asset' = asset /\ calls' = calls)]_vars

\* C4 (amended): a file entry that is _category.toml, or that has an extension
\* other than toml, is skipped as claimed; a file without any extension that is
\* not _category.toml stops the walk with a panic, nothing being appended.
C4_FileWithOtherExtensionSkipped ==
    /\ [][(/\ pc = "entry" /\ Running /\ ~IsVcs(entry.name) /\ ~entry.is_dir
           /\ \/ entry.name = CATEGORY_TOML
              \/ Extension(entry.name) \notin {None, Some(<<"toml">>)})
          => (/\ pc' = "iter" /\ status' = "running"
              /\ stack' = stack /\ asset' = asset /\ calls' = calls)]_vars
    /\ [][(/\ pc = "entry" /\ Running /\ ~IsVcs(entry.name) /\ ~entry.is_dir
           /\ entry.name # CATEGORY_TOML /\ Extension(entry.name) = None)
          => (status' = "panic" /\ stack' = stack /\ calls' = calls)]_vars

\* C4 witness: a file with another extension has been skipped and the walk is at
\* the head of the loop again
C4_Witness ==
    /\ pc = "iter" /\ Running /\ ~entry.is_dir
    /\ entry.name = <<"r", ".", "md">>

\* C5: the code-host client is called only for host github.com with a client
\* supplied, the registry source only for host crates.io with a source supplied;
\* for any other host, or without the matching collaborator, nothing is called,
\* the asset is left as it is and get_extra_metadata returns Ok.
C5_DispatchByExactHost ==
    [][pc = "enrich" =>
        LET url == ParseUrl(asset.link)
            github == url.host = Some("github.com") /\ github_client
            crates == url.host = Some("crates.io") /\ crates_io_db
        IN  /\ (Range(calls') \cap {"get_content", "get_license"} # {}) => github
            /\ ("get_rev_dependency" \in Range(calls')) => crates
            /\ (url.ok /\ IsSome(url.host) /\ ~github /\ ~crates) =>
                  /\ calls' = <<>> /\ asset' = asset
                  /\ pc' = "attach" /\ status' = "running"]_vars

\* C5 witness: an asset of a host near github.com went through get_extra_metadata
\* with both collaborators supplied and nothing was called
C5_Witness ==
    /\ pc = "attach" /\ github_client /\ crates_io_db
    /\ ParseUrl(asset.link).host = Some("www.github.com")
    /\ calls = <<>>

\* C10 (as claimed): for an asset whose link is a well-formed URL, enrichment never
\* stops the walk, whatever the host, the path and the collaborators.
C10_WellFormedLinkNeverAborts ==
    (pc = "enrich" /\ ParseUrl(asset.link).ok) => status = "running"

\* what the claim counts as a descriptor file that must stop the walk
BadDescriptor(d) ==
    \/ ~d.readable \/ ~d.valid
    \/ "bogus" \in d.fields
    \/ \E f \in {"name", "link", "description"} : f \notin d.fields

\* C6: when a directory cannot be enumerated or a descriptor the walker tries to
\* load is unreadable, malformed, has an unknown field or lacks name, link or
\* description, the walk stops there: parse_assets returns no Section, the file is
\* not passed over, and nothing is processed afterwards.
C6_BadInputAbortsWalk ==
    /\ [](/\ (file # NoFile /\ BadDescriptor(file)) => status = "panic"
          /\ status \in {"err", "panic"} => result = None)
    /\ [][(status \in {"err", "panic"}) => vars' = vars]_vars
    /\ [][(pc \in {"open", "iter"} /\ status' = "err") => stack' = stack]_vars

\* C6 witness: a descriptor with an unknown field stopped a walk that had already
\* built part of the tree
C6_Witness ==
    /\ "bogus" \in file.fields /\ status = "panic" /\ result = None
    /\ StackNodes(stack) > 1

RECURSIVE SectionsPlain(_)
SectionsPlain(content) ==
    \A i \in 1..Len(content) :
        content[i].tag = "Section" =>
            /\ content[i].v.template = None /\ content[i].v.header = None
            /\ SectionsPlain(content[i].v.content)

InitEnrich ==
    /\ github_client \in BOOLEAN
    /\ crates_io_db \in BOOLEAN
    /\ stack = <<RootSection>>
    /\ entry = [name |-> <<"x", ".", "toml">>, is_dir |-> FALSE, category |-> NoCategory]
    /\ file \in {d \in Descriptors :
                    /\ DescriptorLoads(d)
                    /\ d.link \in {"https://github.com/o/r", "https://crates.io/crates/c"}}
    /\ asset = [FromDescriptor(file) EXCEPT !.original_path = Some(entry.name)]
    /\ world \in WorldsFor(file.link, EnrichContents, EnrichRevs)
    /\ calls = <<>>
    /\ pc = "enrich"
    /\ status = "running"
    /\ result = None
    /\ arg = <<>>
    /\ ret = None

NextEnrich == Enrich \/ Attach

SpecEnrich == InitEnrich /\ [][NextEnrich]_vars

\* C2 (as claimed): with the manifest fetched and parsed, licenses is set from the
\* license of the manifest's package when there is one; in every other case (no
\* package section, or a package section without license) get_license is queried
\* and its result used; licenses stays as it was only when both give nothing.
C2_LicenseFallbackWheneverManifestHasNone ==
    (pc = "attach" /\ ReachesGithub /\ world.content.ok /\ world.content.valid) =>
        LET package == world.content.package
            fromManifest == IF IsSome(package) THEN package[1].license ELSE None
        IN  IF IsSome(fromManifest)
            THEN asset.licenses = SetLicense(Loaded, fromManifest[1]).licenses
            ELSE /\ "get_license" \in Range(calls)
                 /\ asset.licenses =
                       IF world.license.ok
                       THEN SetLicense(Loaded, world.license.value).licenses
                       ELSE Loaded.licenses

\* the matching records of the registry, by position
Matching == {i \in 1..Len(world.rev.records) : world.rev.records[i].ok}
WithVersion ==
    {i \in Matching : /\ world.rev.records[i].deps.ok
                      /\ world.rev.records[i].deps.list # <<>>}
VersionOf(i) == Some(<<RemoveCaret(world.rev.records[i].deps.list[1])>>)

\* C3 (as claimed): with several matching records the last one wins: licenses and
\* bevy_versions both come from the last matching record and nothing taken from
\* an earlier record survives, also when a record's version list is absent or empty.
C3_LastRecordWinsForBoth ==
    (pc = "attach" /\ ReachesCrates /\ world.rev.ok /\ Matching # {}) =>
        /\ asset.licenses =
              SetLicense(Loaded, world.rev.records[Max(Matching)].license).licenses
        /\ asset.bevy_versions =
              IF Max(Matching) \in WithVersion THEN VersionOf(Max(Matching))
              ELSE Loaded.bevy_versions

\* C3 (amended): licenses come from the last matching record; bevy_versions come
\* from the last matching record whose version list is present and not empty, and
\* are left as they were when no matching record has one.
C3_LastRecordWinsPerField ==
    (pc = "attach" /\ ReachesCrates /\ world.rev.ok /\ Matching # {}) =>
        /\ asset.licenses =
              SetLicense(Loaded, world.rev.records[Max(Matching)].license).licenses
        /\ asset.bevy_versions =
              IF WithVersion # {} THEN VersionOf(Max(WithVersion))
              ELSE Loaded.bevy_versions

\* C3 witness: the last matching record has no usable version list and an earlier
\* one has, so the version of the earlier record stands beside the license of
\* the last
C3_Witness ==
    /\ pc = "attach" /\ ReachesCrates /\ world.rev.ok
    /\ Cardinality(Matching) >= 2
    /\ WithVersion # {} /\ Max(Matching) \notin WithVersion
    /\ asset.bevy_versions = VersionOf(Max(WithVersion))
    /\ asset.bevy_versions # Loaded.bevy_versions
    /\ world.rev.records[Max(WithVersion)].license
          # world.rev.records[Max(Matching)].license

\* ================================================================== set_license alone
Alphabet == {"M", "O", "R", " ", "o"}
LICENSE_PADDED ==
    <<" ", " ", "M", " ", " ", " ", "O", "R", " ", " ", " ", "M", " ">>

InitLicense ==
    /\ github_client = FALSE
    /\ crates_io_db = FALSE
    /\ stack = <<>>
    /\ entry = NoEntry
    /\ file = NoFile
    /\ asset \in {NewAsset("https://example.com/x", None, None),
                  NewAsset("https://example.com/x", Some(<<LICENSE_Z>>), None)}
    /\ world = NoWorld
    /\ calls = <<>>
    /\ pc = "set_license"
    /\ status = "running"
    /\ result = None
    /\ arg \in SeqsUpTo(Alphabet, MaxLen) \cup {LICENSE_M_OR_A, LICENSE_PADDED}
    /\ ret = None

\* asset.set_license(&license)
CallSetLicense ==
    /\ pc = "set_license"
    /\ asset' = SetLicense(asset, arg)
    /\ pc' = "returned"
    /\ UNCHANGED <<github_client, crates_io_db, stack, entry, file, world, calls,
                   status, result, arg, ret>>

SpecLicense == InitLicense /\ [][CallSetLicense]_vars

\* t is raw without the whitespace around it
IsTrimOf(t, raw) ==
    \E i \in 1..(Len(raw) + 1), j \in 0..Len(raw) :
        /\ t = SubSeq(raw, i, j)
        /\ \A m \in 1..(i - 1) : IsWhitespace(raw[m])
        /\ \A m \in (j + 1)..Len(raw) : IsWhitespace(raw[m])
        /\ t # <<>> => (~IsWhitespace(t[1]) /\ ~IsWhitespace(t[Len(t)]))

\* the k-th smallest element of S
Kth(S, k) == CHOOSE x \in S : Cardinality({y \in S : y < x}) = k - 1

\* C9: set_license sets licenses to the pieces of the expression between the
\* occurrences of "OR" (upper case only), each without the whitespace around it,
\* in their order, duplicates kept, n occurrences giving n + 1 entries; "M" gives
\* ["M"] and "  M   OR   M " gives ["M", "M"].
C9_SetLicenseSplitsOnOR ==
    pc = "returned" =>
        LET hits == {i \in 1..(Len(arg) - 1) : arg[i] = "O" /\ arg[i + 1] = "R"}
            n == Cardinality(hits)
            from(k) == IF k = 1 THEN 1 ELSE Kth(hits, k - 1) + 2
            to(k) == IF k = n + 1 THEN Len(arg) ELSE Kth(hits, k) - 1
        IN  /\ IsSome(asset.licenses)
            /\ Len(asset.licenses[1]) = n + 1
            /\ \A k \in 1..(n + 1) :
                  IsTrimOf(asset.licenses[1][k], SubSeq(arg, from(k), to(k)))
            /\ arg = <<"M">> => asset.licenses = Some(<< <<"M">> >>)
            /\ arg = LICENSE_PADDED => asset.licenses = Some(<< <<"M">>, <<"M">> >>)
            /\ arg = LICENSE_M_OR_A => asset.licenses = Some(<< <<"M">>, <<"A">> >>)

\* C9 witness: the padded expression with the same identifier twice was parsed
C9_Witness ==
    /\ pc = "returned" /\ arg = LICENSE_PADDED
    /\ asset.licenses = Some(<< <<"M">>, <<"M">> >>)

\* ================================================================== get_bevy_version alone
DEV == <<"d", "e", "v">>
Versions == {VERSION_09, VERSION_010, VERSION_CARET_011, <<"*">>}
Dependencies ==
    {Simple(v) : v \in Versions}
    \cup {Detailed(v, g, b) :
            v \in {None} \cup {Some(x) : x \in Versions},
            g \in {None, Some(URL)},
            b \in {None, Some(MAIN), Some(DEV), Some(GIT), Some(<<"M", "a", "i", "n">>)}}

InitVersion ==
    /\ github_client = FALSE
    /\ crates_io_db = FALSE
    /\ stack = <<>>
    /\ entry = NoEntry
    /\ file = NoFile
    /\ asset = NoAsset
    /\ world = NoWorld
    /\ calls = <<>>
    /\ pc = "get_bevy_version"
    /\ status = "running"
    /\ result = None
    /\ arg \in Dependencies
    /\ ret = None

\* get_bevy_version(dep)
CallGetBevyVersion ==
    /\ pc = "get_bevy_version"
    /\ ret' = GetBevyVersion(arg)
    /\ pc' = "returned"
    /\ UNCHANGED <<github_client, crates_io_db, stack, entry, file, asset, world,
                   calls, status, result, arg>>

SpecVersion == InitVersion /\ [][CallGetBevyVersion]_vars

\* C8: get_bevy_version returns the string of a bare version; the version of a
\* detailed spec that has one, a git reference or not; without a version but with
\* a git reference, "main" when the branch is "main" and "git" otherwise; nothing
\* with neither.
C8_GetBevyVersionTable ==
    pc = "returned" =>
        /\ arg.tag = "Simple" => ret = arg.version
        /\ (arg.tag = "Detailed" /\ IsSome(arg.version)) => ret = arg.version
        /\ (arg.tag = "Detailed" /\ arg.version = None /\ IsSome(arg.git)) =>
              ret = IF arg.branch = Some(MAIN) THEN Some(MAIN) ELSE Some(GIT)
        /\ (arg.tag = "Detailed" /\ arg.version = None /\ arg.git = None) =>
              ret = None

\* C8 witness: a detailed spec with a version and a git reference on branch main
\* was resolved to its version
C8_Witness ==
    /\ pc = "returned"
    /\ arg = Detailed(Some(VERSION_010), Some(URL), Some(MAIN))
    /\ ret = Some(VERSION_010)

====
